---- MODULE Spec2Model ----
(***************************************************************************)
(* Market snapshot acquisition and indicator derivation:                   *)
(*   engine/data_fetcher.py  (MarketConnector)                             *)
(*   utils/math_tools.py     (calculate_vwap, calculate_rsi, ...)          *)
(*   engine/gemini_brain.py  (GeminiAnalyzer.get_technical_analysis)       *)
(*                                                                         *)
(* Python floats are modelled as exact rationals [n, d] in lowest terms,   *)
(* with d = 0 for the IEEE specials (nan, +inf, -inf) numpy produces on a  *)
(* division by zero.  Numeric strings of the upstream JSON are modelled by *)
(* the number they denote.  Symbols are sequences of characters so that    *)
(* substring tests and replace/upper are computed, not assumed.            *)
(***************************************************************************)
EXTENDS Integers, Sequences, FiniteSets, TLC

VARIABLES
    previous_books,   \* GeminiAnalyzer.previous_books : symbol -> order book
    last,             \* the most recent get_technical_analysis call and its outcome
    seen,             \* history: symbols get_technical_analysis was invoked with
    fetched,          \* history: per symbol, the book of its latest completed call
    arg,              \* input of the pure function under check
    ret,              \* value the pure function returned
    calls,            \* per overlapping caller, its get_technical_analysis call in progress
    events,           \* history: the fetches and cache writes of the overlapping calls, in order
    brain,            \* main.brain : the analyzer, or None when its construction failed
    tick              \* the latest monitor tick and the messages it sent

vars == <<previous_books, last, seen, fetched, arg, ret, calls, events, brain, tick>>

-----------------------------------------------------------------------------
(* Bounds of the model *)

MaxBook == 2        \* the upstream serves order books 0..MaxBook
MaxSize == 1        \* level and trade sizes range over 0..MaxSize
MaxExtra == 1       \* levels or points beyond a depth window or an RSI period
MaxTrades == 3      \* length of a trade tape given to calculate_vwap
MaxPrice == 2       \* trade prices range over 1..MaxPrice
MaxPoints == 4      \* length and values of a short price series
MaxPeriod == 2      \* short RSI periods range over 1..MaxPeriod
MaxTokens == 3      \* tokens concatenated into a symbol string

-----------------------------------------------------------------------------
(* Python values *)

None == [t |-> "None"]
PyList(s) == [t |-> "list", v |-> s]
PyDict(r) == [t |-> "dict", v |-> r]
Absent == [t |-> "absent"]

\* truth value of None, a dict and a list ("if data:", "if not data:")
PyTruthy(x) ==
    CASE x.t = "None" -> FALSE
      [] x.t = "dict" -> DOMAIN x.v # {}
      [] x.t = "list" -> x.v # <<>>

\* dict.get(key, default)
DictGet(d, key, default) == IF key \in DOMAIN d THEN d[key] ELSE default

\* outcome of a call: a returned value or a raised exception
Ok(v) == [ok |-> TRUE, val |-> v]
Raise(e) == [ok |-> FALSE, exc |-> e]

-----------------------------------------------------------------------------
(* Floats as exact rationals *)

Abs(x) == IF x < 0 THEN -x ELSE x
Min(a, b) == IF a < b THEN a ELSE b

RECURSIVE GCD(_, _)
GCD(a, b) == IF b = 0 THEN a ELSE GCD(b, a % b)

Rat(n, d) == LET g == GCD(Abs(n), d) IN [n |-> n \div g, d |-> d \div g]
F(x) == [n |-> x, d |-> 1]
NaN == [n |-> 0, d |-> 0]
Inf == [n |-> 1, d |-> 0]
NegInf == [n |-> -1, d |-> 0]

FAdd(a, b) == Rat(a.n * b.d + b.n * a.d, a.d * b.d)
FSub(a, b) == Rat(a.n * b.d - b.n * a.d, a.d * b.d)
FNeg(a) == [n |-> -a.n, d |-> a.d]
\* a < b on floats: false when either side is nan
FLess(a, b) ==
    IF a.d > 0 /\ b.d > 0 THEN a.n * b.d < b.n * a.d
    ELSE IF a.d = 0 /\ b.d = 0 THEN a.n < b.n /\ a.n # 0 /\ b.n # 0
    ELSE IF a.d = 0 THEN a.n < 0
    ELSE b.n > 0
\* float64 division as numpy performs it: x/0 is nan or +-inf, never an exception
FDiv(a, b) ==
    IF b.n = 0
    THEN (IF a.n = 0 THEN NaN ELSE IF a.n > 0 THEN Inf ELSE NegInf)
    ELSE IF b.n > 0 THEN Rat(a.n * b.d, a.d * b.n)
    ELSE Rat(-(a.n * b.d), a.d * (-b.n))

RECURSIVE SeqSum(_)
SeqSum(s) == IF s = <<>> THEN 0 ELSE Head(s) + SeqSum(Tail(s))

\* s[:k]
Take(s, k) == SubSeq(s, 1, Min(k, Len(s)))

-----------------------------------------------------------------------------
(* utils/math_tools.py *)

DefaultPeriod == 14
ImbalanceDepth == 10
OfiDepth == 5

\* pd.DataFrame(records): the columns are the keys of the records
DataFrame(records) ==
    [columns |-> IF records = <<>> THEN {} ELSE DOMAIN records[1],
     rows |-> records]
DfEmpty(df) == df.rows = <<>> \/ df.columns = {}

calculate_vwap(df) ==
    IF DfEmpty(df) THEN F(0)
    ELSE IF "price" \notin df.columns \/ "amount" \notin df.columns THEN F(0)
    ELSE LET pv == [i \in 1..Len(df.rows) |-> df.rows[i].price * df.rows[i].amount]
             v == [i \in 1..Len(df.rows) |-> df.rows[i].amount]
         IN FDiv(F(SeqSum(pv)), F(SeqSum(v)))

RsiUp(seed, period) ==
    FDiv(F(SeqSum([i \in 1..Len(seed) |-> IF seed[i] >= 0 THEN seed[i] ELSE 0])), F(period))
RsiDown(seed, period) ==
    FNeg(FDiv(F(SeqSum([i \in 1..Len(seed) |-> IF seed[i] < 0 THEN seed[i] ELSE 0])), F(period)))

\* the value computed once the series is long enough
RsiValue(prices, period) ==
    LET deltas == [i \in 1..(Len(prices) - 1) |-> prices[i + 1] - prices[i]]
        seed == Take(deltas, period + 1)
        up == RsiUp(seed, period)
        down == RsiDown(seed, period)
    IN IF down = F(0) THEN F(100)
       ELSE FSub(F(100), FDiv(F(100), FAdd(F(1), FDiv(up, down))))

\* variant: the length test off by one
calculate_rsi_off_by_one(prices, period) ==
    IF Len(prices) <= period + 1 THEN F(50) ELSE RsiValue(prices, period)

calculate_rsi(prices, period) ==
    IF Len(prices) < period + 1 THEN F(50) ELSE RsiValue(prices, period)

\* sum(x[1] for x in levels[:depth]); a level is <<price, size>>
TopVolume(levels, depth) ==
    SeqSum([i \in 1..Min(depth, Len(levels)) |-> levels[i][2]])

\* variant: the ratio inverted (bid volume over ask volume)
calculate_imbalance_ratio_inverted(bids, asks, depth) ==
    IF bids = <<>> \/ asks = <<>> THEN F(1)
    ELSE IF TopVolume(bids, depth) = 0 THEN F(999)
    ELSE FDiv(F(TopVolume(bids, depth)), F(TopVolume(asks, depth)))

calculate_imbalance_ratio(bids, asks, depth) ==
    IF bids = <<>> \/ asks = <<>> THEN F(1)
    ELSE LET bid_vol == TopVolume(bids, depth)
             ask_vol == TopVolume(asks, depth)
         IN IF bid_vol = 0 THEN F(999) ELSE Rat(ask_vol, bid_vol)

\* variant: the depth window of the imbalance ratio used for the OFI volumes
calculate_ofi_depth10(current_book, previous_book) ==
    IF DOMAIN previous_book = {} \/ DOMAIN current_book = {} THEN F(0)
    ELSE F((TopVolume(current_book.bids, ImbalanceDepth)
             - TopVolume(previous_book.bids, ImbalanceDepth))
           - (TopVolume(current_book.asks, ImbalanceDepth)
             - TopVolume(previous_book.asks, ImbalanceDepth)))

calculate_ofi(current_book, previous_book) ==
    IF DOMAIN previous_book = {} \/ DOMAIN current_book = {} THEN F(0)
    ELSE LET cur_bid_vol == TopVolume(current_book.bids, OfiDepth)
             cur_ask_vol == TopVolume(current_book.asks, OfiDepth)
             prev_bid_vol == TopVolume(previous_book.bids, OfiDepth)
             prev_ask_vol == TopVolume(previous_book.asks, OfiDepth)
             delta_bid == cur_bid_vol - prev_bid_vol
             delta_ask == cur_ask_vol - prev_ask_vol
         IN F(delta_bid - delta_ask)

-----------------------------------------------------------------------------
(* Symbol strings *)

XAU == <<"X", "A", "U">>
GOLD == <<"G", "O", "L", "D">>
EUR == <<"E", "U", "R">>
USD == <<"U", "S", "D">>
JPY == <<"J", "P", "Y">>
GBP == <<"G", "B", "P">>
USDT == <<"U", "S", "D", "T">>
BTC == <<"B", "T", "C">>
SLASH == <<"/">>

XAUUSD == XAU \o USD
EUR_USD == EUR \o SLASH \o USD
EUR_USDT == EUR \o SLASH \o USDT
BTC_USDT == BTC \o SLASH \o USDT
BTCUSDT == BTC \o USDT
btc_usdt == <<"b", "t", "c", "/", "u", "s", "d", "t">>

\* Python "sub in s"
Contains(s, sub) ==
    \E i \in 1..(Len(s) - Len(sub) + 1) : SubSeq(s, i, i + Len(sub) - 1) = sub

LowerCase == <<"a", "b", "c", "d", "e", "f", "g", "h", "i", "j", "k", "l", "m",
               "n", "o", "p", "q", "r", "s", "t", "u", "v", "w", "x", "y", "z">>
UpperCase == <<"A", "B", "C", "D", "E", "F", "G", "H", "I", "J", "K", "L", "M",
               "N", "O", "P", "Q", "R", "S", "T", "U", "V", "W", "X", "Y", "Z">>
UpperChar(c) ==
    IF \E i \in 1..Len(LowerCase) : LowerCase[i] = c
    THEN UpperCase[CHOOSE i \in 1..Len(LowerCase) : LowerCase[i] = c]
    ELSE c

-----------------------------------------------------------------------------
(* engine/data_fetcher.py : MarketConnector *)

\* variant: the forex rule without the USDT exclusion
get_market_context_no_usdt(symbol) ==
    IF Contains(symbol, XAU) \/ Contains(symbol, GOLD) THEN "Gold Mode"
    ELSE IF /\ Contains(symbol, SLASH)
            /\ \/ Contains(symbol, EUR)
               \/ Contains(symbol, USD)
               \/ Contains(symbol, JPY)
               \/ Contains(symbol, GBP)
         THEN "Forex Mode"
    ELSE "Crypto Mode"

get_market_context(symbol) ==
    IF Contains(symbol, XAU) \/ Contains(symbol, GOLD) THEN "Gold Mode"
    ELSE IF /\ Contains(symbol, SLASH)
            /\ \/ Contains(symbol, EUR)
               \/ Contains(symbol, USD)
               \/ Contains(symbol, JPY)
               \/ Contains(symbol, GBP)
            /\ ~Contains(symbol, USDT)
         THEN "Forex Mode"
    ELSE "Crypto Mode"

\* symbol.replace('/', '').upper()
_format_symbol(symbol) ==
    LET kept == SelectSeq(symbol, LAMBDA c : c # "/")
    IN [i \in 1..Len(kept) |-> UpperChar(kept[i])]

\* One HTTP exchange as the upstream decides it: a failure of some kind
\* (everything the try block can raise) or a parsed JSON body.
HttpFailures == {"transport", "timeout", "status", "unparsable"}
HttpFail(kind) == [kind |-> kind]
HttpJson(body) == [kind |-> "json", body |-> body]
NotRequested == [kind |-> "not requested"]

_get(http) == IF http.kind = "json" THEN http.body ELSE None

get_price(http) ==
    LET data == _get(http)
    IN IF PyTruthy(data)
       THEN (IF "price" \in DOMAIN data.v THEN Ok(F(data.v.price)) ELSE Raise("KeyError"))
       ELSE Ok(F(0))

\* yfinance: an exception, or the history's Close column (possibly empty)
YfError == [kind |-> "error"]
YfHist(closes) == [kind |-> "hist", closes |-> closes]

get_dxy_data(yf) ==
    IF yf.kind = "hist" /\ yf.closes # <<>>
    THEN [closes |-> yf.closes, last |-> F(yf.closes[Len(yf.closes)])]
    ELSE [closes |-> <<>>, last |-> F(0)]

get_gold_price_yfinance(yf) ==
    IF yf.kind = "hist" /\ yf.closes # <<>>
    THEN F(yf.closes[Len(yf.closes)])
    ELSE F(0)

get_crypto_funding_rate(http) ==
    LET data == _get(http)
    IN IF PyTruthy(data)
       THEN Ok([funding |-> F(DictGet(data.v, "lastFundingRate", 0)),
                mark |-> F(DictGet(data.v, "markPrice", 0))])
       ELSE Ok([funding |-> F(0), mark |-> F(0)])

\* int(time.time() * 1000): an opaque millisecond stamp
NowMillis == [t |-> "int", v |-> "ms"]

\* [[float(p), float(q)] for p, q in levels]: unpacking needs pairs
WellShaped(levels) == \A i \in 1..Len(levels) : Len(levels[i]) = 2

get_order_book(http) ==
    LET data == _get(http)
    IN IF ~PyTruthy(data)
       THEN Ok([bids |-> <<>>, asks |-> <<>>, timestamp |-> None])
       ELSE LET bids == DictGet(data.v, "bids", <<>>)
                asks == DictGet(data.v, "asks", <<>>)
            IN IF WellShaped(bids) /\ WellShaped(asks)
               THEN Ok([bids |-> bids, asks |-> asks, timestamp |-> NowMillis])
               ELSE Raise("ValueError")

TradeKeys == {"time", "isBuyerMaker", "price", "qty"}

\* returns the DataFrame of formatted trades
get_recent_trades(symbol, http) ==
    LET data == _get(http)
    IN IF ~PyTruthy(data) THEN Ok(DataFrame(<<>>))
       ELSE IF \A i \in 1..Len(data.v) : TradeKeys \subseteq DOMAIN data.v[i]
            THEN Ok(DataFrame([i \in 1..Len(data.v) |->
                     [timestamp |-> data.v[i].time,
                      symbol |-> symbol,
                      side |-> IF data.v[i].isBuyerMaker THEN "sell" ELSE "buy",
                      price |-> data.v[i].price,
                      amount |-> data.v[i].qty]]))
            ELSE Raise("KeyError")

IsGold(symbol) == Contains(symbol, XAU) \/ Contains(symbol, GOLD)

\* The upstream's answers to the requests of one snapshot build:
\* up.ticker, up.depth, up.trades, up.premium (HTTP), up.gold, up.dxy (yfinance).
get_market_snapshot(symbol, up) ==
    LET snapshot == [symbol |-> symbol,
                     timestamp |-> NowMillis,
                     order_book |-> [bids |-> <<>>, asks |-> <<>>],
                     recent_trades |-> <<>>,
                     dxy_closes |-> <<>>,
                     dxy_price |-> F(0),
                     funding_rate |-> F(0),
                     mark_price |-> F(0)]
        dxy == get_dxy_data(up.dxy)
        Finish(snap) == Ok([snap EXCEPT !.dxy_closes = dxy.closes, !.dxy_price = dxy.last])
        WithPrice(p) == [k \in DOMAIN snapshot \cup {"price"} |->
                            IF k = "price" THEN p ELSE snapshot[k]]
    IN IF IsGold(symbol)
       THEN Finish(WithPrice(get_gold_price_yfinance(up.gold)))
       ELSE LET price == get_price(up.ticker)
                book == get_order_book(up.depth)
                recent_trades_df == get_recent_trades(symbol, up.trades)
                fm == get_crypto_funding_rate(up.premium)
            IN IF ~price.ok THEN price
               ELSE IF ~book.ok THEN book
               ELSE IF ~recent_trades_df.ok THEN recent_trades_df
               ELSE IF ~fm.ok THEN fm
               ELSE Finish([WithPrice(price.val) EXCEPT
                        !.order_book = book.val,
                        !.recent_trades = IF DfEmpty(recent_trades_df.val)
                                          THEN <<>> ELSE recent_trades_df.val.rows,
                        !.funding_rate = fm.val.funding,
                        !.mark_price = fm.val.mark])

\* self._get(endpoint, params={'symbol': symbol_fmt, ...})
HttpRequest(endpoint, symbol) == [endpoint |-> endpoint, symbol |-> _format_symbol(symbol)]
\* yf.Ticker(ticker).history(...)
YfRequest(ticker) == [endpoint |-> ticker, symbol |-> <<>>]

\* The requests one snapshot build sends, in the order it sends them; a fetch
\* that raises ends the build.
SnapshotRequests(symbol, up) ==
    LET dxy == <<YfRequest("DX-Y.NYB")>>
    IN IF IsGold(symbol)
       THEN <<YfRequest("GC=F")>> \o dxy
       ELSE <<HttpRequest("ticker/price", symbol)>> \o
            IF ~get_price(up.ticker).ok THEN <<>>
            ELSE <<HttpRequest("depth", symbol)>> \o
            IF ~get_order_book(up.depth).ok THEN <<>>
            ELSE <<HttpRequest("trades", symbol)>> \o
            IF ~get_recent_trades(symbol, up.trades).ok THEN <<>>
            ELSE <<HttpRequest("premiumIndex", symbol)>> \o
            IF ~get_crypto_funding_rate(up.premium).ok THEN <<>>
            ELSE dxy

-----------------------------------------------------------------------------
(* engine/gemini_brain.py : GeminiAnalyzer *)

\* __init__: self.previous_books = {}
EmptyDict == [k \in {} |-> Absent]

\* d[key] = value
DictSet(d, key, value) ==
    [k \in DOMAIN d \cup {key} |-> IF k = key THEN value ELSE d[k]]

\* variant: a missing cache entry read as a book without levels
OfiStepDefaultBook(books, symbol, order_book) ==
    IF DOMAIN order_book # {}
    THEN calculate_ofi(order_book, DictGet(books, symbol, [bids |-> <<>>, asks |-> <<>>]))
    ELSE F(0)

\* ofi = 0.0; if symbol in self.previous_books and order_book: ofi = calculate_ofi(...)
OfiStep(books, symbol, order_book) ==
    IF symbol \in DOMAIN books /\ DOMAIN order_book # {}
    THEN calculate_ofi(order_book, books[symbol])
    ELSE F(0)

\* variant: the cache written only when the book has levels
StoreBookIfLevels(books, symbol, order_book) ==
    IF order_book.bids # <<>> \/ order_book.asks # <<>>
    THEN DictSet(books, symbol, order_book)
    ELSE books

\* variant: the cache keyed by the formatted symbol
StoreBookFormatted(books, symbol, order_book) ==
    IF DOMAIN order_book # {}
    THEN DictSet(books, _format_symbol(symbol), order_book)
    ELSE books

\* variant: the cache keeps the first book written for a symbol
StoreBookKeepFirst(books, symbol, order_book) ==
    IF DOMAIN order_book # {} /\ symbol \notin DOMAIN books
    THEN DictSet(books, symbol, order_book)
    ELSE books

\* if order_book: self.previous_books[symbol] = order_book
StoreBook(books, symbol, order_book) ==
    IF DOMAIN order_book # {} THEN DictSet(books, symbol, order_book) ELSE books

\* the early return on a snapshot that carries an "error" key
IsErrorSnapshot(snapshot) ==
    "error" \in DOMAIN snapshot /\ DictGet(snapshot, "dxy_price", F(0)) = F(0)

\* The record built from a snapshot (everything after the early return).
TechnicalRecord(books, symbol, snapshot) ==
    LET current_price == DictGet(snapshot, "price", F(0))
        dxy_price == DictGet(snapshot, "dxy_price", F(0))
        dxy_closes == DictGet(snapshot, "dxy_closes", <<>>)
        funding_rate == DictGet(snapshot, "funding_rate", F(0))
        order_book == DictGet(snapshot, "order_book", EmptyDict)
        bids == IF DOMAIN order_book # {} THEN DictGet(order_book, "bids", <<>>) ELSE <<>>
        asks == IF DOMAIN order_book # {} THEN DictGet(order_book, "asks", <<>>) ELSE <<>>
        trades == DictGet(snapshot, "recent_trades", <<>>)
        trades_df == DataFrame(trades)
        prices == [i \in 1..Len(trades) |-> trades[i].price]
    IN [symbol |-> symbol,
        current_price |-> current_price,
        macro_data |-> IF IsGold(symbol)
                       THEN <<"DXY Index", dxy_price, Len(dxy_closes)>>
                       ELSE <<"Funding Rate", funding_rate, snapshot.mark_price>>,
        vwap |-> IF ~DfEmpty(trades_df) THEN calculate_vwap(trades_df) ELSE F(0),
        rsi |-> IF ~DfEmpty(trades_df) THEN calculate_rsi(prices, DefaultPeriod) ELSE F(50),
        volume_imbalance_ratio |-> calculate_imbalance_ratio(bids, asks, ImbalanceDepth),
        order_flow_imbalance |-> OfiStep(books, symbol, order_book),
        dxy_price |-> dxy_price,
        funding_rate |-> funding_rate,
        top_bid |-> IF bids # <<>> THEN PyList(bids[1]) ELSE None,
        top_ask |-> IF asks # <<>> THEN PyList(asks[1]) ELSE None]

\* The whole call: what it returns or raises, and the cache it leaves.
get_technical_analysis(books, symbol, up) ==
    LET snap == get_market_snapshot(symbol, up)
    IN IF ~snap.ok
       THEN [outcome |-> "raised", exc |-> snap.exc, snapshot |-> Absent,
             result |-> Absent, previous_books |-> books]
       ELSE IF IsErrorSnapshot(snap.val)
       THEN [outcome |-> "returned", exc |-> "", snapshot |-> snap.val,
             result |-> [error |-> "Could not fetch data"], previous_books |-> books]
       ELSE [outcome |-> "returned", exc |-> "", snapshot |-> snap.val,
             result |-> TechnicalRecord(books, symbol, snap.val),
             previous_books |-> StoreBook(books, symbol, snap.val.order_book)]

-----------------------------------------------------------------------------
(* The upstream: what the data sources may answer *)

\* the price the upstream quotes around
BasePrice == 100

\* levels with the given sizes; bids descend from the mid price, asks ascend
BidSide(sizes) == [i \in 1..Len(sizes) |-> <<BasePrice - i, sizes[i]>>]
AskSide(sizes) == [i \in 1..Len(sizes) |-> <<BasePrice + i, sizes[i]>>]
Uniform(n, size) == [i \in 1..n |-> size]

\* /depth bodies the upstream serves, all deeper than the OFI window:
\* 0 has no levels, 1 has top-5 volumes (10, 10), 2 has (15, 8), k > 2 has (5k, 5k + 10)
DepthBody(k) ==
    PyDict([lastUpdateId |-> k,
            bids |-> CASE k = 0 -> <<>>
                       [] k = 1 -> BidSide(<<2, 2, 2, 2, 2, 4>>)
                       [] k = 2 -> BidSide(<<3, 3, 3, 3, 3, 1>>)
                       [] OTHER -> BidSide(Uniform(OfiDepth + 1, k)),
            asks |-> CASE k = 0 -> <<>>
                       [] k = 1 -> AskSide(<<2, 2, 2, 2, 2, 1>>)
                       [] k = 2 -> AskSide(<<2, 2, 2, 1, 1, 5>>)
                       [] OTHER -> AskSide(Uniform(OfiDepth + 1, k + 2))])
DepthBodies == {DepthBody(k) : k \in 0..MaxBook}
\* a level that is no [price, qty] pair
BadDepthBody == PyDict([lastUpdateId |-> 0, bids |-> <<<<BasePrice>>>>, asks |-> <<>>])

TickerBody == PyDict([symbol |-> "s", price |-> BasePrice])
BadTickerBody == PyDict([symbol |-> "s"])

TradesBody ==
    PyList(<<[id |-> 1, time |-> 1, isBuyerMaker |-> TRUE, price |-> BasePrice, qty |-> 1]>>)
BadTradesBody == PyList(<<[id |-> 1, price |-> BasePrice, qty |-> 1]>>)

PremiumBody == PyDict([lastFundingRate |-> 1, markPrice |-> BasePrice])

Timeout == HttpFail("timeout")
YfOk == YfHist(<<BasePrice, BasePrice + 1>>)
Yf == {YfError, YfOk}

Unasked ==
    [ticker |-> NotRequested, depth |-> NotRequested, trades |-> NotRequested,
     premium |-> NotRequested, gold |-> NotRequested, dxy |-> NotRequested]

\* the trade tape, funding and macro sources answer together or fail together
AuxAnswers ==
    {[trades |-> Timeout, premium |-> Timeout, dxy |-> YfError],
     [trades |-> HttpJson(TradesBody), premium |-> HttpJson(PremiumBody), dxy |-> YfOk]}

\* The answers to one snapshot build of a non-metal symbol; a request the build
\* does not get to make (an earlier one raised) has no answer.
CryptoUpstreams ==
    LET tickers == {Timeout, HttpJson(TickerBody)}
        depths == {Timeout} \cup {HttpJson(d) : d \in DepthBodies}
    IN {[Unasked EXCEPT !.ticker = HttpJson(BadTickerBody)]}
       \cup {[Unasked EXCEPT !.ticker = t, !.depth = HttpJson(BadDepthBody)] : t \in tickers}
       \cup {[Unasked EXCEPT !.ticker = t, !.depth = d, !.trades = HttpJson(BadTradesBody)] :
                t \in tickers, d \in depths}
       \cup {[Unasked EXCEPT !.ticker = t, !.depth = d, !.trades = a.trades,
                             !.premium = a.premium, !.dxy = a.dxy] :
                t \in tickers, d \in depths, a \in AuxAnswers}

GoldUpstreams == {[Unasked EXCEPT !.gold = g, !.dxy = d] : g \in Yf, d \in Yf}

Upstreams(symbol) == IF IsGold(symbol) THEN GoldUpstreams ELSE CryptoUpstreams

Symbols == {BTC_USDT, BTCUSDT, XAUUSD}

-----------------------------------------------------------------------------
(* The analyzer as a state machine *)

NoCall ==
    [symbol |-> <<>>, up |-> Absent, outcome |-> "none", exc |-> "",
     snapshot |-> Absent, result |-> Absent, first |-> FALSE, prior |-> Absent,
     requests |-> <<>>]

NoInput == [f |-> "none"]

\* the two call sites of get_technical_analysis: the monitor job (main.py) and
\* the tool call of analyze_symbol
Callers == {"monitor_callback", "analyze_symbol"}

NotCalled ==
    [pc |-> "idle", symbol |-> <<>>, snapshot |-> Absent, previous |-> Absent,
     result |-> Absent]

\* no monitor tick yet
NoTick ==
    [ran |-> FALSE, snapshot |-> Absent, technicals |-> Absent, raised |-> FALSE,
     messages |-> <<>>, before |-> EmptyDict]

\* no overlapping call in progress, analyzer constructed, no monitor tick yet
Quiet ==
    /\ calls = [c \in Callers |-> NotCalled]
    /\ events = <<>>
    /\ brain = "GeminiAnalyzer"
    /\ tick = NoTick

Init ==
    /\ previous_books = EmptyDict
    /\ last = NoCall
    /\ seen = {}
    /\ fetched = EmptyDict
    /\ arg = NoInput
    /\ ret = Absent
    /\ Quiet

GetTechnicalAnalysis(symbol, up) ==
    \E r \in {get_technical_analysis(previous_books, symbol, up)} :
       /\ previous_books' = r.previous_books
       /\ last' = [symbol |-> symbol, up |-> up, outcome |-> r.outcome, exc |-> r.exc,
                   snapshot |-> r.snapshot, result |-> r.result,
                   first |-> symbol \notin seen,
                   prior |-> DictGet(fetched, symbol, Absent),
                   requests |-> SnapshotRequests(symbol, up)]
       /\ seen' = seen \cup {symbol}
       /\ fetched' = IF r.outcome = "returned"
                     THEN DictSet(fetched, symbol, r.snapshot.order_book)
                     ELSE fetched
       /\ UNCHANGED <<arg, ret, calls, events, brain, tick>>

Next == \E symbol \in Symbols : \E up \in Upstreams(symbol) : GetTechnicalAnalysis(symbol, up)

Spec == Init /\ [][Next]_vars

-----------------------------------------------------------------------------
(* Properties of get_technical_analysis *)

Returned == last.outcome = "returned"
Flagged == Returned /\ "error" \in DOMAIN last.result
Analysed == Returned /\ "error" \notin DOMAIN last.result

\* sum of the sizes of the first five levels, counted level by level
RECURSIVE SizesFrom(_, _, _)
SizesFrom(levels, i, n) ==
    IF n = 0 \/ i > Len(levels) THEN 0 ELSE levels[i][2] + SizesFrom(levels, i + 1, n - 1)
Top5(levels) == SizesFrom(levels, 1, 5)

\* every sub-fetch that applies to the symbol degraded
TotalFailure ==
    /\ last.snapshot.price = F(0)
    /\ last.snapshot.order_book.bids = <<>>
    /\ last.snapshot.order_book.asks = <<>>
    /\ IsGold(last.symbol) => last.snapshot.dxy_closes = <<>>

\* C1: a call whose snapshot is a total failure (price 0.0, no bids, no asks
\* and, for a metal symbol, no macro series) returns a record that carries the
\* "error" key.
C1_TotalFailureFlagged == (Returned /\ TotalFailure) => Flagged

\* the price request of the last call was answered with a price
PriceFetched == last.up.ticker = HttpJson(TickerBody)
\* the order-book request of the last call failed
BookFetchFailed == last.up.depth.kind \in HttpFailures
\* no request of the last call was answered with a body that lacks fields
NoBadBody ==
    /\ last.up.ticker # HttpJson(BadTickerBody)
    /\ last.up.depth # HttpJson(BadDepthBody)
    /\ last.up.trades # HttpJson(BadTradesBody)

\* C3: a call for a non-metal symbol whose order-book fetch fails while its
\* price fetch succeeds returns a record without error flag, built from a
\* snapshot with no bids and no asks, with imbalance ratio 1.0 and order flow
\* imbalance 0.0, whatever the previous-book cache holds.
C3_PartialFailureNeutral ==
    (last.outcome # "none" /\ ~IsGold(last.symbol) /\ PriceFetched /\ BookFetchFailed
        /\ NoBadBody)
    => /\ Analysed
       /\ last.snapshot.order_book.bids = <<>>
       /\ last.snapshot.order_book.asks = <<>>
       /\ last.result.volume_imbalance_ratio = F(1)
       /\ last.result.order_flow_imbalance = F(0)

C5_CacheHoldsLatestBook ==
    /\ previous_books = fetched
    /\ Returned =>
          /\ last.symbol \in DOMAIN previous_books
          /\ previous_books[last.symbol] = last.snapshot.order_book

\* a call whose book fetch failed replaced a cached book that had volume
C5_Witness ==
    /\ Returned /\ BookFetchFailed
    /\ last.prior # Absent /\ last.prior.bids # <<>>
    /\ previous_books[last.symbol].bids = <<>>

\* a metal call, which fetches no book, left its empty book in the cache
C5_WitnessMetal ==
    /\ Returned /\ IsGold(last.symbol)
    /\ previous_books[last.symbol] = [bids |-> <<>>, asks |-> <<>>]

\* C6: a completed call for a symbol that has an earlier completed call
\* reports order_flow_imbalance = (curBid - prevBid) - (curAsk - prevAsk), the
\* volumes being the sizes of the top 5 levels and prev the book of the
\* immediately preceding completed call for that symbol.
C6_OfiIsDeltaOfTop5 ==
    (Analysed /\ last.prior # Absent)
    => last.result.order_flow_imbalance =
          F((Top5(last.snapshot.order_book.bids) - Top5(last.prior.bids))
            - (Top5(last.snapshot.order_book.asks) - Top5(last.prior.asks)))

\* previous top-5 volumes (10, 10), current (15, 8): OFI 7
C6_Witness ==
    /\ Analysed /\ last.prior # Absent
    /\ Top5(last.prior.bids) = 10 /\ Top5(last.prior.asks) = 10
    /\ Top5(last.snapshot.order_book.bids) = 15
    /\ Top5(last.snapshot.order_book.asks) = 8
    /\ last.result.order_flow_imbalance = F(7)

\* the endpoints of the spot price, order book, trade tape and funding requests
SpotEndpoints == <<"ticker/price", "depth", "trades", "premiumIndex">>
MacroTicker == "DX-Y.NYB"
Endpoints(requests) == [i \in 1..Len(requests) |-> requests[i].endpoint]
Range(s) == {s[i] : i \in 1..Len(s)}

\* C11: a call for a metal symbol sends no spot price, order-book, trade-tape
\* or funding request and builds a snapshot with no bids, no asks, no recent
\* trades and funding_rate = mark_price = 0.0; a call for a non-metal symbol
\* sends the price, order-book, trade-tape and funding requests in that order;
\* in both cases the macro (DXY) series is requested exactly once, last.
C11_SubFetchesByAssetClass ==
    last.outcome # "none" =>
        LET sent == Endpoints(last.requests)
        IN /\ IsGold(last.symbol) =>
                /\ Range(sent) \cap Range(SpotEndpoints) = {}
                /\ Returned
                /\ last.snapshot.order_book = [bids |-> <<>>, asks |-> <<>>]
                /\ last.snapshot.recent_trades = <<>>
                /\ last.snapshot.funding_rate = F(0)
                /\ last.snapshot.mark_price = F(0)
           /\ ~IsGold(last.symbol) =>
                /\ Len(sent) > Len(SpotEndpoints)
                /\ Take(sent, Len(SpotEndpoints)) = SpotEndpoints
                /\ \A i \in 1..Len(SpotEndpoints) :
                      last.requests[i].symbol = _format_symbol(last.symbol)
           /\ sent # <<>>
           /\ sent[Len(sent)] = MacroTicker
           /\ Cardinality({i \in 1..Len(sent) : sent[i] = MacroTicker}) = 1

\* the same, for the calls in which no request is answered with a body that
\* lacks fields
C11_SubFetchesWhenNoFetchRaises ==
    (last.outcome # "none" /\ NoBadBody) => C11_SubFetchesByAssetClass

-----------------------------------------------------------------------------
(* Overlapping calls of get_technical_analysis on one analyzer *)

OverlapSymbols == {BTC_USDT, BTCUSDT}

\* answers to a snapshot build that vary the book only: a ticker body without
\* price (the build raises), or everything answered, the book request possibly
\* timing out
BookUpstreams ==
    {[Unasked EXCEPT !.ticker = HttpJson(BadTickerBody)]}
    \cup {[Unasked EXCEPT !.ticker = HttpJson(TickerBody), !.depth = d,
                          !.trades = HttpJson(TradesBody),
                          !.premium = HttpJson(PremiumBody), !.dxy = YfOk] :
             d \in {Timeout} \cup {HttpJson(b) : b \in DepthBodies}}

\* the cache earlier, completed calls have left
EarlierCaches ==
    {EmptyDict}
    \cup {DictSet(EmptyDict, s, get_order_book(HttpJson(b)).val) :
             s \in OverlapSymbols, b \in DepthBodies}

InitOverlap ==
    /\ previous_books \in EarlierCaches
    /\ fetched = previous_books
    /\ seen = DOMAIN previous_books
    /\ last = NoCall
    /\ arg = NoInput
    /\ ret = Absent
    /\ Quiet

\* snapshot = self.market_connector.get_market_snapshot(symbol), and the early
\* return on an error snapshot
FetchSnapshot(c, symbol, up) ==
    /\ calls[c].pc = "idle"
    /\ \E snap \in {get_market_snapshot(symbol, up)} :
          /\ calls' = [calls EXCEPT ![c] =
                IF ~snap.ok
                THEN [NotCalled EXCEPT !.pc = "raised", !.symbol = symbol]
                ELSE IF IsErrorSnapshot(snap.val)
                THEN [NotCalled EXCEPT !.pc = "done", !.symbol = symbol,
                                       !.snapshot = snap.val,
                                       !.result = [error |-> "Could not fetch data"]]
                ELSE [NotCalled EXCEPT !.pc = "fetched", !.symbol = symbol,
                                       !.snapshot = snap.val]]
          /\ events' = Append(events, [caller |-> c,
                                       step |-> IF snap.ok THEN "fetch" ELSE "raise"])
    /\ UNCHANGED <<previous_books, last, seen, fetched, arg, ret, brain, tick>>

\* the indicators and the OFI step: the membership test and the read of
\* previous_books[symbol]. No entry is ever removed, so a write that falls
\* between the test and the read gives what reading at once gives after it.
ReadPreviousBook(c) ==
    /\ calls[c].pc = "fetched"
    /\ calls' = [calls EXCEPT
          ![c].pc = "read",
          ![c].previous = DictGet(previous_books, calls[c].symbol, Absent),
          ![c].result = TechnicalRecord(previous_books, calls[c].symbol, calls[c].snapshot)]
    /\ UNCHANGED <<previous_books, last, seen, fetched, arg, ret, events, brain, tick>>

\* if order_book: self.previous_books[symbol] = order_book, and the return
StorePreviousBook(c) ==
    /\ calls[c].pc = "read"
    /\ previous_books' =
          StoreBook(previous_books, calls[c].symbol, calls[c].snapshot.order_book)
    /\ calls' = [calls EXCEPT ![c].pc = "done"]
    /\ events' = Append(events, [caller |-> c, step |-> "store"])
    /\ UNCHANGED <<last, seen, fetched, arg, ret, brain, tick>>

NextOverlap ==
    \E c \in Callers :
       \/ \E symbol \in OverlapSymbols : \E up \in BookUpstreams :
             FetchSnapshot(c, symbol, up)
       \/ ReadPreviousBook(c)
       \/ StorePreviousBook(c)

SpecOverlap == InitOverlap /\ [][NextOverlap]_vars

\* when caller c took the step: its position in the history, 0 if it has not
When(c, step) ==
    LET at == {i \in 1..Len(events) : events[i] = [caller |-> c, step |-> step]}
    IN IF at = {} THEN 0 ELSE CHOOSE i \in at : TRUE

Wrote(c) == When(c, "store") > 0
Book(c) == calls[c].snapshot.order_book

\* C13: when two calls for the same symbol overlap, each fetching first and
\* reading and overwriting previous_books[symbol] afterwards, the entry is at
\* every moment after a write the complete book of the call that wrote last
\* (so never missing and never a mix), and the previous book a call computes
\* its OFI with is a complete book: the entry the overlap started with or the
\* book of the other call, written before the read.
C13_LastWriteWins ==
    \A a \in Callers : \A b \in Callers \ {a} :
       /\ (Wrote(a) /\ calls[b].symbol = calls[a].symbol
              /\ When(b, "store") < When(a, "store"))
          => /\ calls[a].symbol \in DOMAIN previous_books
             /\ previous_books[calls[a].symbol] = Book(a)
       /\ calls[a].pc \in {"read", "done"}
          => /\ calls[a].previous \in
                   {DictGet(fetched, calls[a].symbol, Absent)}
                   \cup {Book(x) : x \in {y \in {b} : Wrote(y)
                                               /\ calls[y].symbol = calls[a].symbol}}
             /\ calls[a].result.order_flow_imbalance =
                   IF calls[a].previous = Absent THEN F(0)
                   ELSE calculate_ofi(Book(a), calls[a].previous)

\* both calls finished; the one that fetched first read the other's later
\* book as its previous book and then wrote last, so the entry is the book
\* fetched earlier
C13_Witness ==
    \E a \in Callers : \E b \in Callers \ {a} :
       /\ calls[a].pc = "done" /\ calls[b].pc = "done"
       /\ calls[a].symbol = calls[b].symbol
       /\ When(a, "fetch") < When(b, "fetch")
       /\ When(b, "store") < When(a, "store")
       /\ Book(a) # Book(b)
       /\ calls[a].previous = Book(b)
       /\ calls[a].result.order_flow_imbalance # F(0)
       /\ previous_books[calls[a].symbol] = Book(a)

-----------------------------------------------------------------------------
(* Calls for symbol strings that name one instrument *)

\* three spellings that _format_symbol maps to BTCUSDT
KeySymbols == {BTC_USDT, BTCUSDT, btc_usdt}

NextKeys ==
    \E symbol \in KeySymbols : \E up \in BookUpstreams : GetTechnicalAnalysis(symbol, up)

SpecKeys == Init /\ [][NextKeys]_vars

\* the cache cut down to the entry of one key
Only(books, key) == [k \in DOMAIN books \cap {key} |-> books[k]]

\* C14: a get_technical_analysis(s) call reads and writes only
\* previous_books[s], the key being the symbol string as supplied: every other
\* entry is left as it was, no entry is removed, what the call returns is what
\* it returns when the cache holds the entry of s alone, and after the call
\* the key set is exactly the set of symbol strings analysed so far.
C14_PerSymbolIsolation ==
    [][LET s == last'.symbol
       IN /\ DOMAIN previous_books \subseteq DOMAIN previous_books'
          /\ DOMAIN previous_books' \subseteq DOMAIN previous_books \cup {s}
          /\ \A k \in DOMAIN previous_books \ {s} : previous_books'[k] = previous_books[k]
          /\ last'.result = get_technical_analysis(Only(previous_books, s), s, last'.up).result
          /\ DOMAIN previous_books' = DOMAIN fetched'
      ]_vars

\* the first call for "BTCUSDT" reports OFI 0.0 and gets its own entry while
\* "BTC/USDT", the same instrument upstream, has a different book cached and
\* "btc/usdt" has none
C14_Witness ==
    /\ Analysed /\ last.symbol = BTCUSDT /\ last.first
    /\ _format_symbol(BTC_USDT) = _format_symbol(BTCUSDT)
    /\ _format_symbol(btc_usdt) = _format_symbol(BTCUSDT)
    /\ DOMAIN previous_books = {BTC_USDT, BTCUSDT}
    /\ previous_books[BTC_USDT].bids # <<>>
    /\ previous_books[BTCUSDT].bids # <<>>
    /\ previous_books[BTCUSDT] # previous_books[BTC_USDT]
    /\ last.result.order_flow_imbalance = F(0)

-----------------------------------------------------------------------------
(* main.py : the monitor job *)

\* os.getenv("TRADING_SYMBOL", "BTC/USDT")
TRADING_SYMBOL == BTC_USDT

\* variant: the sell-wall threshold met by a ratio of exactly 3.0
AlertAtThreshold(technicals) ==
    LET ratio == DictGet(technicals, "volume_imbalance_ratio", F(1))
    IN IF ~FLess(ratio, F(3)) THEN <<"SELL WALL DETECTED">>
       ELSE IF FLess(ratio, Rat(33, 100)) THEN <<"BUY WALL DETECTED">>
       ELSE <<>>

\* ratio = technicals.get("volume_imbalance_ratio", 1.0) and the messages the
\* tick sends for it
Alert(technicals) ==
    LET ratio == DictGet(technicals, "volume_imbalance_ratio", F(1))
    IN IF FLess(F(3), ratio) THEN <<"SELL WALL DETECTED">>
       ELSE IF FLess(ratio, Rat(33, 100)) THEN <<"BUY WALL DETECTED">>
       ELSE <<>>

\* sizes of the one-level books served to the monitor: ratios 4 and 3, 1/4 and
\* 33/100, a zero bid volume, a zero ask volume
WallSizes == {0, 1, 3, 4, 33, 100}
WallBody(b, a) ==
    PyDict([lastUpdateId |-> 0, bids |-> BidSide(<<b>>), asks |-> AskSide(<<a>>)])

MonitorUpstreams ==
    BookUpstreams
    \cup {[Unasked EXCEPT !.ticker = HttpJson(TickerBody),
                          !.depth = HttpJson(WallBody(b, a)),
                          !.trades = HttpJson(TradesBody),
                          !.premium = HttpJson(PremiumBody), !.dxy = YfOk] :
             b \in WallSizes, a \in WallSizes}

\* brain = GeminiAnalyzer(), or None when the constructor raised
InitMonitor ==
    /\ previous_books = EmptyDict
    /\ last = NoCall
    /\ seen = {}
    /\ fetched = EmptyDict
    /\ arg = NoInput
    /\ ret = Absent
    /\ calls = [c \in Callers |-> NotCalled]
    /\ events = <<>>
    /\ brain \in {"GeminiAnalyzer", "None"}
    /\ tick = NoTick

\* one run of monitor_callback; the except clause logs and sends nothing
monitor_callback(up) ==
    /\ IF brain = "None"
       THEN /\ tick' = [NoTick EXCEPT !.ran = TRUE, !.before = previous_books]
            /\ UNCHANGED previous_books
       ELSE \E r \in {get_technical_analysis(previous_books, TRADING_SYMBOL, up)} :
               /\ previous_books' = r.previous_books
               /\ tick' = [ran |-> TRUE,
                           snapshot |-> r.snapshot,
                           technicals |-> r.result,
                           raised |-> r.outcome = "raised",
                           messages |-> IF r.outcome = "raised" THEN <<>>
                                        ELSE IF "error" \in DOMAIN r.result THEN <<>>
                                        ELSE Alert(r.result),
                           before |-> previous_books]
    /\ UNCHANGED <<last, seen, fetched, arg, ret, calls, events, brain>>

NextMonitor == \E up \in MonitorUpstreams : monitor_callback(up)

SpecMonitor == InitMonitor /\ [][NextMonitor]_vars

\* the tick produced a record without error flag
TickAnalysed == tick.technicals # Absent /\ "error" \notin DOMAIN tick.technicals
TickRatio == tick.technicals.volume_imbalance_ratio

\* at most one message per tick: a sell-wall alert exactly when the ratio is
\* above 3.0, a buy-wall alert exactly when it is below 0.33, nothing for a
\* ratio within [0.33, 3.0], an error flag, a failed call or a missing analyzer
AlertRule ==
    /\ Len(tick.messages) <= 1
    /\ tick.messages = <<"SELL WALL DETECTED">>
          <=> (TickAnalysed /\ FLess(F(3), TickRatio))
    /\ tick.messages = <<"BUY WALL DETECTED">>
          <=> (TickAnalysed /\ FLess(TickRatio, Rat(33, 100)))
    /\ tick.messages = <<>>
          <=> \/ ~TickAnalysed
              \/ (~FLess(TickRatio, Rat(33, 100)) /\ ~FLess(F(3), TickRatio))

\* the cache entry of the monitored symbol is the book of this tick's snapshot
CacheAdvanced ==
    /\ tick.snapshot # Absent
    /\ TRADING_SYMBOL \in DOMAIN previous_books
    /\ previous_books[TRADING_SYMBOL] = tick.snapshot.order_book

\* C15 as claimed: every tick follows the alert rule and every tick advances
\* the previous-book cache of the monitored symbol.
C15_EveryTickAdvancesCache == tick.ran => (AlertRule /\ CacheAdvanced)

\* C15: every tick follows the alert rule; a tick whose analysis returns a
\* record advances the previous-book cache of the monitored symbol, and a tick
\* without analyzer or whose analysis raises sends nothing and leaves the
\* cache as it was.
C15_MonitorAlerts ==
    tick.ran =>
       /\ AlertRule
       /\ TickAnalysed => CacheAdvanced
       /\ (brain = "None" \/ tick.raised)
          => (tick.messages = <<>> /\ previous_books = tick.before)

\* a tick on the zero-bid sentinel 999.0 sent the sell-wall alert and advanced
\* the cache from a book of an earlier tick
C15_Witness ==
    /\ tick.ran /\ TickAnalysed
    /\ TickRatio = F(999)
    /\ tick.messages = <<"SELL WALL DETECTED">>
    /\ TRADING_SYMBOL \in DOMAIN tick.before
    /\ tick.before[TRADING_SYMBOL] # tick.snapshot.order_book
    /\ CacheAdvanced

-----------------------------------------------------------------------------
(* The pure functions, each applied to inputs drawn by the initial state *)

Idle ==
    /\ previous_books = EmptyDict
    /\ last = NoCall
    /\ seen = {}
    /\ fetched = EmptyDict
    /\ ret = Absent
    /\ Quiet

Apply(f, value) ==
    /\ arg.f = f
    /\ ret = Absent
    /\ ret' = value
    /\ UNCHANGED <<previous_books, last, seen, fetched, arg, calls, events, brain, tick>>

(* get_market_context *)

Tokens == {XAU, GOLD, EUR, USD, JPY, GBP, USDT, BTC, SLASH, <<"T">>, <<"X">>, <<"A", "U">>}

RECURSIVE TokenStrings(_)
TokenStrings(n) ==
    IF n = 0 THEN {<<>>}
    ELSE LET shorter == TokenStrings(n - 1)
         IN shorter \cup {s \o t : s \in shorter, t \in Tokens}

SymbolStrings == TokenStrings(MaxTokens) \cup {XAUUSD, EUR_USD, EUR_USDT, BTC_USDT}

InitClassify ==
    /\ Idle
    /\ arg \in {[f |-> "get_market_context", symbol |-> s] : s \in SymbolStrings}

Classify == Apply("get_market_context", [context |-> get_market_context(arg.symbol)])

SpecClassify == InitClassify /\ [][Classify]_vars

(* calculate_imbalance_ratio *)

\* n sizes: the first k are a, the others b
SplitSizes(n, k, a, b) == [i \in 1..n |-> IF i <= k THEN a ELSE b]

SideLengths == 0..2 \cup ImbalanceDepth..(ImbalanceDepth + MaxExtra)

SideSizes ==
    {SplitSizes(n, k, a, b) : n \in SideLengths, k \in 0..(ImbalanceDepth + MaxExtra),
                              a \in 0..MaxSize, b \in 0..MaxSize}

ExampleBids == <<<<100, 2>>, <<99, 3>>>>
ExampleAsks == <<<<101, 5>>, <<102, 5>>>>

InitImbalance ==
    /\ Idle
    /\ arg \in {[f |-> "calculate_imbalance_ratio", bids |-> BidSide(b), asks |-> AskSide(a)] :
                   b \in SideSizes, a \in SideSizes}
               \cup {[f |-> "calculate_imbalance_ratio", bids |-> ExampleBids,
                      asks |-> ExampleAsks]}

Imbalance ==
    Apply("calculate_imbalance_ratio",
          [ratio |-> calculate_imbalance_ratio(arg.bids, arg.asks, ImbalanceDepth)])

SpecImbalance == InitImbalance /\ [][Imbalance]_vars

(* calculate_vwap *)

RECURSIVE Tapes(_)
Tapes(n) ==
    IF n = 0 THEN {<<>>}
    ELSE LET shorter == Tapes(n - 1)
         IN shorter \cup {Append(s, [price |-> p, amount |-> v]) :
                             s \in shorter, p \in 1..MaxPrice, v \in 0..MaxSize}

InitVwap ==
    /\ Idle
    /\ arg \in {[f |-> "calculate_vwap", trades |-> t] : t \in Tapes(MaxTrades)}

Vwap == Apply("calculate_vwap", [vwap |-> calculate_vwap(DataFrame(arg.trades))])

SpecVwap == InitVwap /\ [][Vwap]_vars

(* calculate_rsi *)

RECURSIVE Series(_)
Series(n) ==
    IF n = 0 THEN {<<>>}
    ELSE LET shorter == Series(n - 1)
         IN shorter \cup {Append(s, p) : s \in shorter, p \in 1..MaxPoints}

\* 1, 2, ..., n with a dip of two below the ramp at position j (none when j = 0)
Ramp(n, j) == [i \in 1..n |-> IF i = j THEN i - 2 ELSE i]

InitRsi ==
    /\ Idle
    /\ arg \in {[f |-> "calculate_rsi", prices |-> s, period |-> q] :
                   s \in Series(MaxPoints), q \in 1..MaxPeriod}
               \cup {[f |-> "calculate_rsi", prices |-> Ramp(n, j), period |-> DefaultPeriod] :
                        n \in 0..(DefaultPeriod + 1 + MaxExtra),
                        j \in 0..(DefaultPeriod + 1 + MaxExtra)}

Rsi == Apply("calculate_rsi", [rsi |-> calculate_rsi(arg.prices, arg.period)])

SpecRsi == InitRsi /\ [][Rsi]_vars

(* the Quote Client, one fetch at a time *)

QuoteFunctions ==
    {"get_price", "get_order_book", "get_recent_trades", "get_crypto_funding_rate"}

\* a dict without one of its keys
Without(d, key) == [k \in DOMAIN d \ {key} |-> d[k]]

Trade == [id |-> 1, time |-> 1, isBuyerMaker |-> TRUE, price |-> BasePrice, qty |-> 1]
TradeShapes == {Trade} \cup {Without(Trade, k) : k \in TradeKeys}
TradeLists == {<<>>} \cup {<<x>> : x \in TradeShapes}
                     \cup {<<x, y>> : x \in TradeShapes, y \in TradeShapes}

\* well-formed JSON bodies, with and without the fields the client reads
QuoteBodies(f) ==
    CASE f = "get_price" ->
            {PyDict([symbol |-> "s", price |-> p]) : p \in 1..MaxPrice}
            \cup {BadTickerBody, PyDict(EmptyDict)}
      [] f = "get_order_book" ->
            DepthBodies
            \cup {BadDepthBody, PyDict(EmptyDict), PyDict([lastUpdateId |-> 0]),
                  PyDict([lastUpdateId |-> 0, bids |-> <<>>, asks |-> <<<<BasePrice, 1, 1>>>>])}
      [] f = "get_recent_trades" -> {PyList(l) : l \in TradeLists}
      [] f = "get_crypto_funding_rate" ->
            {PremiumBody, PyDict([markPrice |-> BasePrice]),
             PyDict([lastFundingRate |-> 1]), PyDict([symbol |-> "s"]), PyDict(EmptyDict)}

InitQuote ==
    /\ Idle
    /\ arg \in UNION {{[f |-> f, http |-> h] :
                          h \in {HttpFail(k) : k \in HttpFailures}
                                \cup {HttpJson(b) : b \in QuoteBodies(f)}} :
                      f \in QuoteFunctions}

GetPrice == Apply("get_price", get_price(arg.http))
GetOrderBook == Apply("get_order_book", get_order_book(arg.http))
GetRecentTrades == Apply("get_recent_trades", get_recent_trades(BTC_USDT, arg.http))
GetCryptoFundingRate == Apply("get_crypto_funding_rate", get_crypto_funding_rate(arg.http))

NextQuote == GetPrice \/ GetOrderBook \/ GetRecentTrades \/ GetCryptoFundingRate

SpecQuote == InitQuote /\ [][NextQuote]_vars

-----------------------------------------------------------------------------
(* Properties of the Quote Client *)

\* the value each fetch substitutes when it degrades
EmptyBook(book) == book.bids = <<>> /\ book.asks = <<>>
IsDefault(f, v) ==
    CASE f = "get_price" -> v = F(0)
      [] f = "get_order_book" -> EmptyBook(v)
      [] f = "get_recent_trades" -> v.rows = <<>>
      [] f = "get_crypto_funding_rate" -> v = [funding |-> F(0), mark |-> F(0)]

\* the body has every field the fetch reads, in the shape it reads it
HasFields(f, body) ==
    CASE f = "get_price" -> "price" \in DOMAIN body.v
      [] f = "get_order_book" ->
            /\ {"bids", "asks"} \subseteq DOMAIN body.v
            /\ WellShaped(body.v.bids) /\ WellShaped(body.v.asks)
      [] f = "get_recent_trades" ->
            \A i \in 1..Len(body.v) : TradeKeys \subseteq DOMAIN body.v[i]
      [] f = "get_crypto_funding_rate" ->
            {"lastFundingRate", "markPrice"} \subseteq DOMAIN body.v

Degraded == arg.http.kind \in HttpFailures \/ ~HasFields(arg.f, arg.http.body)

\* C2: whatever the upstream answers to a single fetch, the Quote Client
\* returns a value and raises nothing, and on a failure or a body that lacks
\* the expected fields that value is the documented default (0.0, an empty
\* book, no trades, (0.0, 0.0)).
C2_QuoteClientNeverRaises ==
    ret # Absent => (ret.ok /\ (Degraded => IsDefault(arg.f, ret.val)))

-----------------------------------------------------------------------------
(* Properties of the pure functions *)

\* the asset class the claim's rules give, and the class a context stands for
RuleClass(symbol) ==
    CASE Contains(symbol, XAU) \/ Contains(symbol, GOLD) -> "metal"
      [] OTHER ->
         IF /\ Contains(symbol, SLASH)
            /\ \E c \in {EUR, USD, JPY, GBP} : Contains(symbol, c)
            /\ ~Contains(symbol, USDT)
         THEN "forex" ELSE "crypto"
ClassOf(context) ==
    CASE context = "Gold Mode" -> "metal"
      [] context = "Forex Mode" -> "forex"
      [] context = "Crypto Mode" -> "crypto"

\* C7: get_market_context gives every symbol the class of the first rule that
\* applies (XAU or GOLD: metal; else "/" with a fiat code and no USDT: forex;
\* else crypto); XAUUSD is metal, EUR/USD forex, EUR/USDT and BTC/USDT crypto,
\* and a symbol with a fiat code and USDT and no metal token is never forex.
C7_SymbolClassification ==
    ret # Absent =>
       /\ ClassOf(ret.context) = RuleClass(arg.symbol)
       /\ arg.symbol = XAUUSD => ret.context = "Gold Mode"
       /\ arg.symbol = EUR_USD => ret.context = "Forex Mode"
       /\ arg.symbol \in {EUR_USDT, BTC_USDT} => ret.context = "Crypto Mode"
       /\ (/\ Contains(arg.symbol, USDT)
           /\ ~Contains(arg.symbol, XAU) /\ ~Contains(arg.symbol, GOLD))
          => ret.context = "Crypto Mode"

\* EUR/USDT, a fiat code before the USDT quote, classified as crypto
C7_Witness ==
    ret # Absent /\ arg.symbol = EUR_USDT /\ ret.context = "Crypto Mode"

Top10(levels) == SizesFrom(levels, 1, 10)

\* C8 as claimed: 1.0 if a side is empty; 999.0 if the top-10 bid volume is
\* zero while the top-10 ask volume is positive; in every other case the
\* quotient ask volume / bid volume, whose divisor is then not zero.
C8_RatioAsClaimed ==
    ret # Absent =>
       IF arg.bids = <<>> \/ arg.asks = <<>> THEN ret.ratio = F(1)
       ELSE IF Top10(arg.bids) = 0 /\ Top10(arg.asks) > 0 THEN ret.ratio = F(999)
       ELSE /\ Top10(arg.bids) # 0
            /\ ret.ratio.d # 0
            /\ ret.ratio.n * Top10(arg.bids) = ret.ratio.d * Top10(arg.asks)

\* C8 amended: 1.0 if a side is empty; 999.0 whenever the top-10 bid volume
\* is zero, the ask volume being positive or zero; otherwise the quotient of
\* the top-10 ask volume by the top-10 bid volume.
C8_ImbalanceRatioCases ==
    ret # Absent =>
       IF arg.bids = <<>> \/ arg.asks = <<>> THEN ret.ratio = F(1)
       ELSE IF Top10(arg.bids) = 0 THEN ret.ratio = F(999)
       ELSE /\ ret.ratio.d # 0
            /\ ret.ratio.n * Top10(arg.bids) = ret.ratio.d * Top10(arg.asks)

\* two sides with levels whose top-10 volumes are both zero, while the bid side
\* has volume below the window: the sentinel is returned
C8_Witness ==
    /\ ret # Absent
    /\ Len(arg.bids) > 10 /\ arg.asks # <<>>
    /\ Top10(arg.bids) = 0 /\ Top10(arg.asks) = 0
    /\ arg.bids[11][2] > 0
    /\ ret.ratio = F(999)

\* the documented example: ratio 10 / 5 = 2.0
C8_WitnessExample ==
    ret # Absent /\ arg.bids = ExampleBids /\ arg.asks = ExampleAsks /\ ret.ratio = F(2)

SamePrice(trades, p) == \A i \in 1..Len(trades) : trades[i].price = p

\* C9: calculate_vwap returns 0.0 for an empty tape, and exactly p for a
\* non-empty tape whose trades all have price p, whatever their sizes (zero
\* included).
C9_VwapOfOnePrice ==
    ret # Absent =>
       /\ arg.trades = <<>> => ret.vwap = F(0)
       /\ \A p \in 1..MaxPrice :
             (arg.trades # <<>> /\ SamePrice(arg.trades, p)) => ret.vwap = F(p)

StrictlyIncreasing(prices) ==
    \A i \in 1..(Len(prices) - 1) : prices[i] < prices[i + 1]

\* C10: calculate_rsi returns 50.0 for a series of fewer than period + 1
\* points and 100.0 for a strictly increasing series of at least period + 1
\* points.
C10_RsiNeutralAndMaximal ==
    ret # Absent =>
       /\ Len(arg.prices) < arg.period + 1 => ret.rsi = F(50)
       /\ (Len(arg.prices) >= arg.period + 1 /\ StrictlyIncreasing(arg.prices))
          => ret.rsi = F(100)

\* a strictly increasing series of exactly 15 points under the default period
C10_Witness ==
    /\ ret # Absent /\ arg.period = DefaultPeriod
    /\ Len(arg.prices) = DefaultPeriod + 1 /\ StrictlyIncreasing(arg.prices)
    /\ ret.rsi = F(100)

\* a series one point short of the default period's window
C10_WitnessShort ==
    /\ ret # Absent /\ arg.period = DefaultPeriod
    /\ Len(arg.prices) = DefaultPeriod
    /\ ret.rsi = F(50)

\* the RSI of exactly `period` successive deltas, the window of one RSI period
RsiOfOnePeriod(prices, period) ==
    LET deltas == [i \in 1..period |-> prices[i + 1] - prices[i]]
        up == FDiv(F(SeqSum([i \in 1..period |-> IF deltas[i] >= 0 THEN deltas[i] ELSE 0])),
                   F(period))
        down == FDiv(F(Abs(SeqSum([i \in 1..period |-> IF deltas[i] < 0 THEN deltas[i] ELSE 0]))),
                     F(period))
    IN IF down = F(0) THEN F(100)
       ELSE FSub(F(100), FDiv(F(100), FAdd(F(1), FDiv(up, down))))

\* 0 <= x <= 100 for a finite x
WithinPercent(x) == x.d > 0 /\ 0 <= x.n /\ x.n <= 100 * x.d

\* C12: for a series of at least period + 1 points calculate_rsi returns the
\* RSI of exactly `period` successive deltas (100.0 when their down average is
\* 0, otherwise 100 - 100/(1 + up/down)), a value within [0, 100] that the
\* points beyond the first period + 1 do not change.
C12_RsiWindowOfOnePeriod ==
    (ret # Absent /\ Len(arg.prices) >= arg.period + 1)
    => /\ ret.rsi = RsiOfOnePeriod(arg.prices, arg.period)
       /\ WithinPercent(ret.rsi)
       /\ ret.rsi = calculate_rsi(Take(arg.prices, arg.period + 1), arg.period)

\* the part of C12 that the code keeps: the value lies within [0, 100]
C12_RsiWithinPercent == ret # Absent => WithinPercent(ret.rsi)

====
